---- MODULE Spec2Model ----
(***************************************************************************)
(* A model of the note repository of note_app/main.py: the Note entity,    *)
(* NoteManager's in-memory collection, its JSON backing file, and the      *)
(* create / get / update / delete / search operations.                     *)
(*                                                                         *)
(* Text is a sequence of one-character strings.  A datetime is a number of *)
(* microsecond ticks; its ISO text is the sequence of its printed fields.  *)
(***************************************************************************)
EXTENDS Integers, Sequences, FiniteSets, TLC

\* ---------------------------------------------------------------- bounds
\* most notes in the collection, last clock tick, ticks per second
MaxNotes == 2
MaxTime == 1
UsecPerSec == 2

\* ---------------------------------------------------------------- inputs
Times == 0..MaxTime
Titles == {<<>>, <<"A">>}
Contents == {<<>>, <<"a">>}
TagLists == {<<>>, << <<"W">> >>}
Queries == {<<>>, <<"a">>, <<"w">>}
TagFilters == {<<>>, << <<"w">> >>}

\* ---------------------------------------------------------------- text helpers
\* str.lower() on one character
LowerChar(c) ==
  CASE c = "A" -> "a"
    [] c = "W" -> "w"
    [] c = "U" -> "u"
    [] OTHER -> c

\* str.lower()
Lower(s) == [i \in 1..Len(s) |-> LowerChar(s[i])]

\* the `in` operator on two strings: q occurs as a substring of s
Contains(s, q) ==
  \E k \in 0..Len(s) :
    /\ k + Len(q) <= Len(s)
    /\ \A i \in 1..Len(q) : s[k + i] = q[i]

\* the `in` operator on a list
InList(x, l) == \E i \in 1..Len(l) : l[i] = x

\* ---------------------------------------------------------------- timestamps
\* datetime.isoformat(): the microsecond field is printed only when non-zero
isoformat(t) ==
  IF t % UsecPerSec = 0
    THEN <<t \div UsecPerSec>>
    ELSE <<t \div UsecPerSec, t % UsecPerSec>>

\* whether datetime.fromisoformat() accepts the text
IsIsoText(s) ==
  /\ Len(s) \in {1, 2}
  /\ s[1] >= 0
  /\ Len(s) = 2 => (s[2] >= 0 /\ s[2] < UsecPerSec)

\* fromisoformat that drops the microsecond field
fromisoformatWholeSeconds(s) == s[1] * UsecPerSec

\* datetime.fromisoformat() on accepted text
fromisoformat(s) ==
  s[1] * UsecPerSec + (IF Len(s) = 2 THEN s[2] ELSE 0)

\* f"note_{now.strftime('%Y%m%d_%H%M%S_%f')}": every field is always printed
NoteId(t) == <<t \div UsecPerSec, t % UsecPerSec>>

NoteIds == {NoteId(t) : t \in Times}

\* an id no create_note call produces
UnknownId == <<MaxTime + 1, 0>>

\* ---------------------------------------------------------------- the Note entity
Note(id, title, content, tags, created_at, updated_at, is_pinned, is_archived) ==
  [id |-> id, title |-> title, content |-> content, tags |-> tags,
   created_at |-> created_at, updated_at |-> updated_at,
   is_pinned |-> is_pinned, is_archived |-> is_archived]

\* ---------------------------------------------------------------- the backing file
\* One element of the decoded JSON array.  kind "record" is a JSON object whose
\* keys are the eight field names less `missing`; kind "scalar" is anything else.
FileRecord(n) ==
  [kind |-> "record", missing |-> {},
   id |-> n.id, title |-> n.title, content |-> n.content, tags |-> n.tags,
   created_at |-> isoformat(n.created_at),
   updated_at |-> isoformat(n.updated_at),
   is_pinned |-> n.is_pinned, is_archived |-> n.is_archived]

\* File content: kind "missing" (no file), "garbage" (text json.load rejects),
\* "badbytes" (bytes that are not UTF-8), "scalar" (a JSON number or null),
\* "dict" (a JSON object with at least one key), "list" (a JSON array of items).
FileOf(kind, items) == [kind |-> kind, items |-> items]

\* what save_notes writes for a collection
Serialize(ns) == FileOf("list", [i \in 1..Len(ns) |-> FileRecord(ns[i])])

\* ---------------------------------------------------------------- load_notes
\* Note(**record) with __post_init__ parsing both timestamps
DecodeRecord(r) ==
  Note(r.id, r.title, r.content, r.tags,
       fromisoformat(r.created_at), fromisoformat(r.updated_at),
       r.is_pinned, r.is_archived)

\* The for loop of load_notes from item i on, acc being self.notes so far.
\* A missing key raises KeyError while the arguments are evaluated, which the
\* except clause turns into an empty collection; a non-record item raises
\* TypeError and an unparseable timestamp raises ValueError, neither caught.
RECURSIVE LoadItems(_, _, _)
LoadItems(items, i, acc) ==
  IF i > Len(items) THEN [notes |-> acc, raised |-> "none"]
  ELSE IF items[i].kind # "record" THEN [notes |-> acc, raised |-> "TypeError"]
  ELSE IF items[i].missing # {} THEN [notes |-> <<>>, raised |-> "none"]
  ELSE IF ~IsIsoText(items[i].created_at) \/ ~IsIsoText(items[i].updated_at)
    THEN [notes |-> acc, raised |-> "ValueError"]
  ELSE LoadItems(items, i + 1, Append(acc, DecodeRecord(items[i])))

\* load_notes on file content f when self.notes is old: the collection it
\* leaves and the exception that escapes it
LoadNotes(f, old) ==
  CASE f.kind = "missing" -> [notes |-> <<>>, raised |-> "none"]
    [] f.kind = "badbytes" -> [notes |-> old, raised |-> "UnicodeDecodeError"]
    [] f.kind = "garbage" -> [notes |-> <<>>, raised |-> "none"]
    [] f.kind \in {"scalar", "dict"} -> [notes |-> <<>>, raised |-> "TypeError"]
    [] OTHER -> LoadItems(f.items, 1, <<>>)

\* ---------------------------------------------------------------- save_notes
\* How a write of the backing file can end: done, or open() refused (OSError,
\* the file is left as it was).
SaveOutcomes == {"ok", "open_fail"}

\* ... or open() truncated the file and json.dump's write failed (OSError, the
\* file holds an incomplete text that json.load rejects).
WriteOutcomes == SaveOutcomes \cup {"write_fail"}

\* save_notes that leaves the write for later
SaveNotesDeferred(ns, old, o) == old

\* the file after save_notes on collection ns ends with outcome o, old being
\* the file before
SaveNotes(ns, old, o) ==
  CASE o = "ok" -> Serialize(ns)
    [] o = "write_fail" -> FileOf("garbage", <<>>)
    [] OTHER -> old

\* save_notes with the write wrapped in a try that swallows the error
SaveRaisedSwallowed(o) == "none"

\* the exception that escapes save_notes
SaveRaised(o) == IF o = "ok" THEN "none" ELSE "OSError"

\* ---------------------------------------------------------------- get_note
\* index of the first note with the id, 0 when there is none
RECURSIVE FindFrom(_, _, _)
FindFrom(ns, id, i) ==
  IF i > Len(ns) THEN 0
  ELSE IF ns[i].id = id THEN i
  ELSE FindFrom(ns, id, i + 1)

get_note(ns, id) == FindFrom(ns, id, 1)

\* list.remove of the element at index k
RemoveAt(ns, k) ==
  [i \in 1..(Len(ns) - 1) |-> IF i < k THEN ns[i] ELSE ns[i + 1]]

\* ---------------------------------------------------------------- search_notes
\* matches_tags with the loop left at the first tag found: any tag suffices
MatchesTagsAny(n, tags) ==
  \/ tags = <<>>
  \/ \E i \in 1..Len(tags) :
       InList(Lower(tags[i]), [j \in 1..Len(n.tags) |-> Lower(n.tags[j])])

\* matches_tags: every requested tag, lower-cased, is among the note's
MatchesTags(n, tags) ==
  \A i \in 1..Len(tags) : InList(Lower(tags[i]), [j \in 1..Len(n.tags) |-> Lower(n.tags[j])])

\* matches_query that also looks for the query in the tags
MatchesQueryWithTags(n, query) ==
  \/ query = <<>>
  \/ Contains(Lower(n.title), Lower(query))
  \/ Contains(Lower(n.content), Lower(query))
  \/ \E j \in 1..Len(n.tags) : Contains(Lower(n.tags[j]), Lower(query))

\* matches_query
MatchesQuery(n, query) ==
  \/ query = <<>>
  \/ Contains(Lower(n.title), Lower(query))
  \/ Contains(Lower(n.content), Lower(query))

\* the filter loop without the archive check
RECURSIVE FilterFromKeepArchived(_, _, _, _, _)
FilterFromKeepArchived(ns, i, query, tags, include_archived) ==
  IF i > Len(ns) THEN <<>>
  ELSE
    LET n == ns[i]
        rest == FilterFromKeepArchived(ns, i + 1, query, tags, include_archived)
    IN IF MatchesQuery(n, query) /\ MatchesTags(n, tags) THEN <<n>> \o rest
       ELSE rest

\* the filter loop: the notes that are appended to results, in collection order
RECURSIVE FilterFrom(_, _, _, _, _)
FilterFrom(ns, i, query, tags, include_archived) ==
  IF i > Len(ns) THEN <<>>
  ELSE
    LET n == ns[i]
        rest == FilterFrom(ns, i + 1, query, tags, include_archived)
    IN IF ~include_archived /\ n.is_archived THEN rest
       ELSE IF MatchesQuery(n, query) /\ MatchesTags(n, tags) THEN <<n>> \o rest
       ELSE rest

\* the key comparison with the older note counted greater
KeyGreaterOldestFirst(a, b) ==
  \/ (~a.is_pinned) /\ b.is_pinned
  \/ (a.is_pinned = b.is_pinned) /\ a.updated_at < b.updated_at

\* tuple comparison of the sort key (not x.is_pinned, x.updated_at): a > b
KeyGreater(a, b) ==
  \/ (~a.is_pinned) /\ b.is_pinned
  \/ (a.is_pinned = b.is_pinned) /\ a.updated_at > b.updated_at

\* insertion that puts x before the elements with an equal key
RECURSIVE InsertDescBeforeEqual(_, _)
InsertDescBeforeEqual(sorted, x) ==
  IF sorted = <<>> THEN <<x>>
  ELSE IF ~KeyGreater(Head(sorted), x) THEN <<x>> \o sorted
  ELSE <<Head(sorted)>> \o InsertDescBeforeEqual(Tail(sorted), x)

\* insert x into a list already sorted descending, after every element whose
\* key is not smaller (list.sort is stable, also with reverse=True)
RECURSIVE InsertDesc(_, _)
InsertDesc(sorted, x) ==
  IF sorted = <<>> THEN <<x>>
  ELSE IF KeyGreater(x, Head(sorted)) THEN <<x>> \o sorted
  ELSE <<Head(sorted)>> \o InsertDesc(Tail(sorted), x)

\* results.sort(key=..., reverse=True)
RECURSIVE SortResults(_)
SortResults(rs) ==
  IF rs = <<>> THEN <<>>
  ELSE InsertDesc(SortResults(SubSeq(rs, 1, Len(rs) - 1)), rs[Len(rs)])

search_notes(ns, query, tags, include_archived) ==
  SortResults(FilterFrom(ns, 1, query, tags, include_archived))

\* ---------------------------------------------------------------- get_all_tags
\* ord() of a character
CharCode(c) ==
  CASE c = "A" -> 65
    [] c = "U" -> 85
    [] c = "W" -> 87
    [] c = "a" -> 97
    [] c = "u" -> 117
    [] c = "w" -> 119
    [] OTHER -> 0

\* a < b on strings: at the first position where they differ a has the smaller
\* character, or a is a proper prefix of b
StrLess(a, b) ==
  \E k \in 1..(Len(a) + 1) :
    /\ \A i \in 1..(k - 1) : i <= Len(b) /\ a[i] = b[i]
    /\ k <= Len(b)
    /\ (k <= Len(a) => CharCode(a[k]) < CharCode(b[k]))

\* all_tags filled with the tags as entered
AllTagSetAsEntered(ns) ==
  UNION {{ns[i].tags[j] : j \in 1..Len(ns[i].tags)} : i \in 1..Len(ns)}

\* all_tags after the loops: every tag of every note, lower-cased, as a set
AllTagSet(ns) ==
  UNION {{Lower(ns[i].tags[j]) : j \in 1..Len(ns[i].tags)} : i \in 1..Len(ns)}

\* sorted(list(S)) for a set of strings
RECURSIVE SortedStrings(_)
SortedStrings(S) ==
  IF S = {} THEN <<>>
  ELSE LET m == CHOOSE x \in S : \A y \in S : y = x \/ StrLess(x, y)
       IN <<m>> \o SortedStrings(S \ {m})

get_all_tags(ns) == SortedStrings(AllTagSet(ns))

\* ---------------------------------------------------------------- state
\* notes: self.notes; file: content of notes.json; clock: the last reading of
\* datetime.now(); constructed: a NoteManager instance exists; lastOp: the last
\* call and its outcome.
VARIABLES notes, file, clock, constructed, lastOp

vars == <<notes, file, clock, constructed, lastOp>>

\* What the last call was (op, and its note_id argument or <<>>), what it
\* returned (ok: True / not None; out: the notes, or for get_all_tags the tags,
\* returned), the exception that escaped it, and whether it ran save_notes.
Result(op, id, ok, out, raised, saved) ==
  [op |-> op, id |-> id, ok |-> ok, out |-> out, raised |-> raised, saved |-> saved]

\* A NoteManager constructed on an empty data directory.
Init ==
  /\ notes = <<>>
  /\ file = FileOf("missing", <<>>)
  /\ clock = 0
  /\ constructed = TRUE
  /\ lastOp = Result("init", <<>>, TRUE, <<>>, "none", FALSE)

\* NoteManager.__init__: self.notes = [] and load_notes(); an exception that
\* escapes load_notes escapes the constructor, and no instance results.
Construct ==
  LET r == LoadNotes(file, <<>>)
  IN /\ notes' = r.notes
     /\ constructed' = (r.raised = "none")
     /\ lastOp' = Result("init", <<>>, r.raised = "none", <<>>, r.raised, FALSE)
     /\ UNCHANGED <<file, clock>>

\* An argument that may be omitted (None): <<>> is omitted, <<v>> supplies v.
Option(S) == {<<>>} \cup {<<v>> : v \in S}

\* `if tags is None: tags = []`
DefaultTags(tags) == IF tags = <<>> THEN <<>> ELSE tags[1]

\* create_note with the two timestamps assigned the other way round
CreateNoteStampsSwapped(title, content, tags, t1, t2, t3, o) ==
  /\ constructed
  /\ Len(notes) < MaxNotes
  /\ clock <= t1 /\ t1 <= t2 /\ t2 <= t3
  /\ LET note == Note(NoteId(t1), title, content, DefaultTags(tags), t3, t2, FALSE, FALSE)
         raised == SaveRaised(o)
     IN /\ notes' = Append(notes, note)
        /\ file' = SaveNotes(notes', file, o)
        /\ lastOp' = Result("create", <<>>, raised = "none",
                            IF raised = "none" THEN <<note>> ELSE <<>>, raised, TRUE)
  /\ clock' = t3
  /\ UNCHANGED constructed

\* create_note: tags may be omitted; three readings of the clock (id,
\* created_at, updated_at); the note is returned unless save_notes raised
CreateNote(title, content, tags, t1, t2, t3, o) ==
  /\ constructed
  /\ Len(notes) < MaxNotes
  /\ clock <= t1 /\ t1 <= t2 /\ t2 <= t3
  /\ LET note == Note(NoteId(t1), title, content, DefaultTags(tags), t2, t3, FALSE, FALSE)
         raised == SaveRaised(o)
     IN /\ notes' = Append(notes, note)
        /\ file' = SaveNotes(notes', file, o)
        /\ lastOp' = Result("create", <<>>, raised = "none",
                            IF raised = "none" THEN <<note>> ELSE <<>>, raised, TRUE)
  /\ clock' = t3
  /\ UNCHANGED constructed

\* The keyword arguments of update_note.  A supplied title is empty or not; a
\* supplied content or tag list is the empty one.
Patches ==
  [title : Option(Titles), content : Option({<<>>}), tags : Option({<<>>}),
   is_pinned : Option(BOOLEAN), is_archived : Option(BOOLEAN)]

\* the field assignments written with truthiness tests (`if tags:`) in place
\* of `is not None`: a supplied empty or false value is skipped
PatchedIfTruthy(n, p, t) ==
  [n EXCEPT !.title = IF p.title # <<>> /\ p.title[1] # <<>> THEN p.title[1] ELSE @,
            !.content = IF p.content # <<>> /\ p.content[1] # <<>> THEN p.content[1] ELSE @,
            !.tags = IF p.tags # <<>> /\ p.tags[1] # <<>> THEN p.tags[1] ELSE @,
            !.is_pinned = IF p.is_pinned # <<>> /\ p.is_pinned[1] THEN TRUE ELSE @,
            !.is_archived = IF p.is_archived # <<>> /\ p.is_archived[1] THEN TRUE ELSE @,
            !.updated_at = t]

\* the field assignments of update_note on the note found
Patched(n, p, t) ==
  [n EXCEPT !.title = IF p.title # <<>> THEN p.title[1] ELSE @,
            !.content = IF p.content # <<>> THEN p.content[1] ELSE @,
            !.tags = IF p.tags # <<>> THEN p.tags[1] ELSE @,
            !.is_pinned = IF p.is_pinned # <<>> THEN p.is_pinned[1] ELSE @,
            !.is_archived = IF p.is_archived # <<>> THEN p.is_archived[1] ELSE @,
            !.updated_at = t]

\* the collection update_note leaves: the note get_note finds is patched in place
update_note(ns, id, p, t) ==
  LET k == get_note(ns, id)
  IN IF k = 0 THEN ns ELSE [ns EXCEPT ![k] = Patched(@, p, t)]

\* update_note that saves before it looks the note up
UpdateNoteSaveFirst(id, p, t, o) ==
  /\ constructed
  /\ IF get_note(notes, id) = 0
       THEN /\ file' = SaveNotes(notes, file, o)
            /\ lastOp' = Result("update", id, FALSE, <<>>, SaveRaised(o), TRUE)
            /\ UNCHANGED <<notes, clock>>
       ELSE /\ clock <= t
            /\ notes' = update_note(notes, id, p, t)
            /\ clock' = t
            /\ file' = SaveNotes(notes', file, o)
            /\ lastOp' = Result("update", id, SaveRaised(o) = "none", <<>>, SaveRaised(o), TRUE)
  /\ UNCHANGED constructed

UpdateNote(id, p, t, o) ==
  /\ constructed
  /\ IF get_note(notes, id) = 0
       THEN /\ lastOp' = Result("update", id, FALSE, <<>>, "none", FALSE)
            /\ UNCHANGED <<notes, file, clock>>
       ELSE /\ clock <= t
            /\ notes' = update_note(notes, id, p, t)
            /\ clock' = t
            /\ file' = SaveNotes(notes', file, o)
            /\ lastOp' = Result("update", id, SaveRaised(o) = "none", <<>>, SaveRaised(o), TRUE)
  /\ UNCHANGED constructed

\* delete_note that puts the note back when save_notes raises
DeleteNoteRollback(id, o) ==
  /\ constructed
  /\ LET k == get_note(notes, id)
     IN IF k = 0
          THEN /\ lastOp' = Result("delete", id, FALSE, <<>>, "none", FALSE)
               /\ UNCHANGED <<notes, file>>
          ELSE /\ notes' = IF SaveRaised(o) = "none" THEN RemoveAt(notes, k) ELSE notes
               /\ file' = SaveNotes(RemoveAt(notes, k), file, o)
               /\ lastOp' = Result("delete", id, SaveRaised(o) = "none", <<>>, SaveRaised(o), TRUE)
  /\ UNCHANGED <<clock, constructed>>

DeleteNote(id, o) ==
  /\ constructed
  /\ LET k == get_note(notes, id)
     IN IF k = 0
          THEN /\ lastOp' = Result("delete", id, FALSE, <<>>, "none", FALSE)
               /\ UNCHANGED <<notes, file>>
          ELSE /\ notes' = RemoveAt(notes, k)
               /\ file' = SaveNotes(notes', file, o)
               /\ lastOp' = Result("delete", id, SaveRaised(o) = "none", <<>>, SaveRaised(o), TRUE)
  /\ UNCHANGED <<clock, constructed>>

GetNote(id) ==
  /\ constructed
  /\ LET k == get_note(notes, id)
     IN lastOp' = Result("get", id, k # 0, IF k = 0 THEN <<>> ELSE <<notes[k]>>,
                         "none", FALSE)
  /\ UNCHANGED <<notes, file, clock, constructed>>

\* search_notes that sorts self.notes itself before filtering
SearchNotesSortInPlace(query, tags, include_archived) ==
  /\ constructed
  /\ notes' = SortResults(notes)
  /\ lastOp' = Result("search", <<>>, TRUE,
                      search_notes(notes, query, tags, include_archived), "none", FALSE)
  /\ UNCHANGED <<file, clock, constructed>>

SearchNotes(query, tags, include_archived) ==
  /\ constructed
  /\ lastOp' = Result("search", <<>>, TRUE,
                      search_notes(notes, query, tags, include_archived), "none", FALSE)
  /\ UNCHANGED <<notes, file, clock, constructed>>

\* save_notes called directly
SaveNotesCall(o) ==
  /\ constructed
  /\ file' = SaveNotes(notes, file, o)
  /\ lastOp' = Result("save", <<>>, SaveRaised(o) = "none", <<>>, SaveRaised(o), TRUE)
  /\ UNCHANGED <<notes, clock, constructed>>

\* get_all_tags(): out holds the tags returned
GetAllTags ==
  /\ constructed
  /\ lastOp' = Result("tags", <<>>, TRUE, get_all_tags(notes), "none", FALSE)
  /\ UNCHANGED <<notes, file, clock, constructed>>

\* load_notes called directly on the instance
LoadNotesCall ==
  /\ constructed
  /\ LET r == LoadNotes(file, notes)
     IN /\ notes' = r.notes
        /\ lastOp' = Result("load", <<>>, r.raised = "none", <<>>, r.raised, FALSE)
  /\ UNCHANGED <<file, clock, constructed>>

\* ---------------------------------------------------------------- environment
GoodRecord == FileRecord(Note(NoteId(0), <<"A">>, <<>>, << <<"W">> >>, 0, 1, TRUE, FALSE))
ScalarItem == [GoodRecord EXCEPT !.kind = "scalar"]
NoTitleRecord == [GoodRecord EXCEPT !.missing = {"title"}]
BadTimeRecord == [GoodRecord EXCEPT !.updated_at = <<>>]

\* Contents of the backing file that are not a well-formed array of records.
MalformedFiles ==
  {FileOf("garbage", <<>>), FileOf("badbytes", <<>>),
   FileOf("scalar", <<>>), FileOf("dict", <<>>),
   FileOf("list", <<GoodRecord, ScalarItem>>),
   FileOf("list", <<GoodRecord, NoTitleRecord>>),
   FileOf("list", <<GoodRecord, BadTimeRecord>>)}

\* Something other than this NoteManager writes the backing file.
WriteFile(f) ==
  /\ file' = f
  /\ lastOp' = Result("external", <<>>, TRUE, <<>>, "none", FALSE)
  /\ UNCHANGED <<notes, clock, constructed>>

\* ---------------------------------------------------------------- specification
\* the fields a patch supplies
Supplied(p) == {f \in {"title", "content", "tags", "is_pinned", "is_archived"} : p[f] # <<>>}

\* The update_note calls the runs make: no field or one field supplied, or
\* title, content and tags together (the form's save button, ui/gui.py).
UpdateCalls ==
  {p \in Patches : Cardinality(Supplied(p)) <= 1 \/ Supplied(p) = {"title", "content", "tags"}}

\* Normal operation: every write of the backing file succeeds and nothing else
\* touches the file.
Next ==
  \/ Construct
  \/ \E title \in Titles, content \in Contents, tags \in Option(TagLists),
        t1 \in Times, t2 \in Times, t3 \in Times :
       CreateNote(title, content, tags, t1, t2, t3, "ok")
  \/ \E id \in NoteIds \cup {UnknownId}, p \in UpdateCalls, t \in Times :
       UpdateNote(id, p, t, "ok")
  \/ \E id \in NoteIds \cup {UnknownId} : DeleteNote(id, "ok")
  \/ \E id \in NoteIds \cup {UnknownId} : GetNote(id)
  \/ \E query \in Queries, tags \in TagFilters, include_archived \in BOOLEAN :
       SearchNotes(query, tags, include_archived)
  \/ SaveNotesCall("ok")
  \/ GetAllTags
  \/ LoadNotesCall

Spec == Init /\ [][Next]_vars

\* Operation in a hostile environment: a write of the backing file may fail and
\* the file may be replaced from outside.  Notes are created with one text and
\* only pinned or unpinned.
PinPatches == {p \in Patches : Supplied(p) = {"is_pinned"}}

NextEnv ==
  \/ Construct
  \/ \E t1 \in Times, t2 \in Times, t3 \in Times, o \in SaveOutcomes :
       CreateNote(<<"A">>, <<>>, <<>>, t1, t2, t3, o)
  \/ \E id \in NoteIds \cup {UnknownId}, p \in PinPatches, t \in Times, o \in SaveOutcomes :
       UpdateNote(id, p, t, o)
  \/ \E id \in NoteIds \cup {UnknownId}, o \in SaveOutcomes : DeleteNote(id, o)
  \/ \E o \in SaveOutcomes : SaveNotesCall(o)
  \/ \E f \in MalformedFiles : WriteFile(f)

SpecEnv == Init /\ [][NextEnv]_vars

\* Loading: the backing file is replaced from outside, also by arrays in which
\* a record without title follows a well-formed record and a bad item, and
\* load_notes runs on the instance or in a new one.
LoadFiles ==
  MalformedFiles \cup
    {FileOf("list", <<GoodRecord>>),
     FileOf("list", <<GoodRecord, BadTimeRecord, NoTitleRecord>>),
     FileOf("list", <<GoodRecord, ScalarItem, NoTitleRecord>>)}

NextLoad ==
  \/ Construct
  \/ \E t1 \in Times, t2 \in Times, t3 \in Times :
       CreateNote(<<"A">>, <<>>, <<>>, t1, t2, t3, "ok")
  \/ \E id \in NoteIds : DeleteNote(id, "ok")
  \/ \E f \in LoadFiles : WriteFile(f)
  \/ LoadNotesCall

SpecLoad == Init /\ [][NextLoad]_vars

\* Failing writes: every save may succeed, be refused at open() or fail while
\* writing; nothing else touches the file.
NextFail ==
  \/ \E t1 \in Times, t2 \in Times, t3 \in Times, o \in WriteOutcomes :
       CreateNote(<<"A">>, <<>>, <<>>, t1, t2, t3, o)
  \/ \E id \in NoteIds \cup {UnknownId}, p \in PinPatches, t \in Times, o \in WriteOutcomes :
       UpdateNote(id, p, t, o)
  \/ \E id \in NoteIds \cup {UnknownId}, o \in WriteOutcomes : DeleteNote(id, o)
  \/ \E o \in WriteOutcomes : SaveNotesCall(o)

SpecFail == Init /\ [][NextFail]_vars

\* Tagging: notes are created with tag lists of several tags in either case,
\* archived, searched by tag filter and listed by get_all_tags.
NoteTagLists ==
  {<<>>, << <<"W">> >>, << <<"w">>, <<"U">> >>, << <<"w", "u">>, <<"a">> >>}

TagFilterLists ==
  {<<>>, << <<"W">> >>, << <<"w">>, <<"u">> >>, << <<"w">>, <<"a">> >>, << <<"w", "u">> >>}

ArchivePatches == {p \in Patches : Supplied(p) = {"is_archived"} /\ p.is_archived[1]}

NextTags ==
  \/ \E tags \in NoteTagLists, t1 \in Times, t2 \in Times, t3 \in Times :
       CreateNote(<<"A">>, <<>>, <<tags>>, t1, t2, t3, "ok")
  \/ \E id \in NoteIds, p \in ArchivePatches, t \in Times : UpdateNote(id, p, t, "ok")
  \/ \E tags \in TagFilterLists, include_archived \in BOOLEAN :
       SearchNotes(<<>>, tags, include_archived)
  \/ GetAllTags

SpecTags == Init /\ [][NextTags]_vars

\* whether some note of ns has the id
HasId(ns, id) == \E i \in 1..Len(ns) : ns[i].id = id

\* ---------------------------------------------------------------- claims
\* C1: in the sequence a search_notes call returns, every pinned note comes
\* before every unpinned note.
C1_PinnedBeforeUnpinned ==
  lastOp.op = "search" =>
    \A i, j \in 1..Len(lastOp.out) :
      (lastOp.out[i].is_pinned /\ ~lastOp.out[j].is_pinned) => i < j

\* C2: no two notes of the collection have the same id, whatever the clock
\* returns to create_note.
C2_IdsPairwiseDistinct ==
  \A i, j \in 1..Len(notes) : i # j => notes[i].id # notes[j].id

\* C3: after a create_note, update_note or delete_note call, in a run where
\* every call returned normally, the backing file decodes without error to
\* exactly the in-memory collection.
C3_WriteThrough ==
  lastOp.op \in {"create", "update", "delete"} =>
    LoadNotes(file, <<>>) = [notes |-> notes, raised |-> "none"]

C3_Witness ==
  /\ lastOp.op = "update" /\ lastOp.ok /\ lastOp.saved
  /\ Len(notes) = 2
  /\ notes[1].updated_at % UsecPerSec # 0
  /\ notes[2].updated_at % UsecPerSec = 0
  /\ notes[2].tags # <<>>

\* C4: a NoteManager constructed right after a successful save_notes holds the
\* collection that was saved, field for field and in the same order, and its
\* construction raises nothing.
C4_RoundTrip ==
  [][(lastOp.op = "save" /\ lastOp.raised = "none" /\ lastOp'.op = "init")
       => (notes' = notes /\ lastOp'.raised = "none" /\ constructed')]_vars

C4_Witness ==
  /\ lastOp.op = "init" /\ lastOp.raised = "none"
  /\ Len(notes) = 2
  /\ notes[1].is_pinned /\ notes[1].is_archived /\ notes[1].tags # <<>>
  /\ notes[1].created_at % UsecPerSec = 0
  /\ notes[1].updated_at % UsecPerSec # 0

\* C5: constructing a NoteManager on a backing file that is not a well-formed
\* array of note records raises nothing and leaves the collection empty.
C5_TolerantLoad ==
  (lastOp.op = "init" /\ file \in MalformedFiles) =>
    (lastOp.raised = "none" /\ notes = <<>>)

\* C6: in every reachable state, update_note of an existing id with any
\* subset of the fields supplied gives each supplied field the supplied value
\* (empty and false included), keeps each omitted field, keeps id and
\* created_at, sets updated_at to the clock reading, and leaves every other
\* note and the order of the collection as they were.
C6_PartialPatch ==
  \A id \in NoteIds, p \in Patches, t \in Times :
    (HasId(notes, id) /\ clock <= t) =>
      LET k == CHOOSE i \in 1..Len(notes) :
                 notes[i].id = id /\ \A j \in 1..(i - 1) : notes[j].id # id
          r == update_note(notes, id, p, t)
      IN /\ Len(r) = Len(notes)
         /\ \A i \in 1..Len(notes) : i # k => r[i] = notes[i]
         /\ r[k].id = notes[k].id
         /\ r[k].created_at = notes[k].created_at
         /\ r[k].updated_at = t
         /\ r[k].title = (IF p.title = <<>> THEN notes[k].title ELSE p.title[1])
         /\ r[k].content = (IF p.content = <<>> THEN notes[k].content ELSE p.content[1])
         /\ r[k].tags = (IF p.tags = <<>> THEN notes[k].tags ELSE p.tags[1])
         /\ r[k].is_pinned = (IF p.is_pinned = <<>> THEN notes[k].is_pinned ELSE p.is_pinned[1])
         /\ r[k].is_archived =
              (IF p.is_archived = <<>> THEN notes[k].is_archived ELSE p.is_archived[1])

C6_Witness ==
  /\ lastOp.op = "update" /\ lastOp.ok
  /\ Len(notes) = 2
  /\ lastOp.id = notes[2].id /\ notes[1].id # notes[2].id
  /\ notes[2].title = <<>> /\ notes[2].content = <<>> /\ notes[2].tags = <<>>
  /\ ~notes[2].is_pinned /\ notes[2].is_archived
  /\ notes[1].title # <<>> /\ notes[1].tags # <<>> /\ notes[1].is_pinned

\* C7: update_note with an id no note has returns False, does not run
\* save_notes, and leaves the collection and the backing file as they were.
C7_UpdateUnknownId ==
  [][(lastOp'.op = "update" /\ ~HasId(notes, lastOp'.id))
       => /\ ~lastOp'.ok /\ lastOp'.raised = "none" /\ ~lastOp'.saved
          /\ notes' = notes
          /\ file' = file]_vars

C7_Witness ==
  /\ lastOp.op = "update" /\ ~lastOp.ok /\ lastOp.raised = "none" /\ ~lastOp.saved
  /\ ~HasId(notes, lastOp.id)
  /\ Len(notes) = 2
  /\ file # Serialize(notes)

\* C8: delete_note with an id no note has returns False and leaves the
\* collection and the backing file as they were; and a delete_note that
\* follows a successful delete_note of the same id returns False and changes
\* nothing.
C8_DeleteUnknownId ==
  [][/\ (lastOp'.op = "delete" /\ ~HasId(notes, lastOp'.id))
          => (~lastOp'.ok /\ lastOp'.raised = "none" /\ notes' = notes /\ file' = file)
     /\ (lastOp.op = "delete" /\ lastOp.ok /\ lastOp'.op = "delete" /\ lastOp'.id = lastOp.id)
          => (~lastOp'.ok /\ notes' = notes /\ file' = file)]_vars

\* C9: after delete_note(id) returns True, get_note(id) finds nothing, the
\* collection is the previous one less one note, in the same order and with
\* the same fields, and the backing file holds that collection.
C9_DeleteRemoves ==
  [][(lastOp'.op = "delete" /\ lastOp'.ok)
       => /\ ~HasId(notes', lastOp'.id)
          /\ get_note(notes', lastOp'.id) = 0
          /\ \E k \in 1..Len(notes) :
               /\ notes[k].id = lastOp'.id
               /\ Len(notes') = Len(notes) - 1
               /\ \A i \in 1..Len(notes') : notes'[i] = notes[IF i < k THEN i ELSE i + 1]
          /\ LoadNotes(file', <<>>) = [notes |-> notes', raised |-> "none"]]_vars

\* C10: search_notes with include_archived false returns no archived note,
\* and with include_archived true and neither query nor tag filter it returns
\* every note of the collection.
C10_ArchiveVisibility ==
  /\ \A query \in Queries, tags \in TagFilters :
       LET r == search_notes(notes, query, tags, FALSE)
       IN \A i \in 1..Len(r) : ~r[i].is_archived
  /\ LET r == search_notes(notes, <<>>, <<>>, TRUE)
     IN /\ Len(r) = Len(notes)
        /\ \A i \in 1..Len(notes) : \E j \in 1..Len(r) : r[j] = notes[i]

C10_Witness ==
  /\ lastOp.op = "search"
  /\ Len(notes) = 2
  /\ notes[1].is_archived /\ ~notes[2].is_archived
  /\ lastOp.out = <<notes[2]>>

\* C11: with a non-empty tag filter a note passes search_notes exactly when
\* every requested tag equals, ignoring case, some tag of the note; an empty
\* tag filter excludes no note.
C11_TagFilterAll ==
  \A tags \in TagFilterLists :
    LET r == search_notes(notes, <<>>, tags, TRUE)
    IN \A i \in 1..Len(notes) :
         (\E j \in 1..Len(r) : r[j] = notes[i])
           <=> (\A a \in 1..Len(tags) :
                  \E b \in 1..Len(notes[i].tags) :
                    Lower(notes[i].tags[b]) = Lower(tags[a]))

C11_Witness ==
  /\ lastOp.op = "search"
  /\ Len(notes) = 2
  /\ notes[1].tags = << <<"w">>, <<"U">> >> /\ ~notes[1].is_archived
  /\ notes[2].tags = << <<"w", "u">>, <<"a">> >> /\ ~notes[2].is_archived
  /\ notes[1] # notes[2]
  /\ lastOp.out = <<notes[1]>>

\* C15: get_all_tags returns the lower-cased tags of all notes, archived ones
\* included, each once and in ascending lexicographic order.
C15_AllTagsSortedDistinct ==
  lastOp.op = "tags" =>
    LET r == lastOp.out
    IN /\ \A i \in 1..Len(notes) : \A j \in 1..Len(notes[i].tags) :
            \E k \in 1..Len(r) : r[k] = Lower(notes[i].tags[j])
       /\ \A k \in 1..Len(r) :
            \E i \in 1..Len(notes) : \E j \in 1..Len(notes[i].tags) :
              r[k] = Lower(notes[i].tags[j])
       /\ \A k, l \in 1..Len(r) : k < l => (r[k] # r[l] /\ StrLess(r[k], r[l]))

C15_Witness ==
  /\ lastOp.op = "tags"
  /\ Len(notes) = 2
  /\ notes[1].tags = << <<"W">> >> /\ notes[1].is_archived
  /\ notes[2].tags = << <<"w">>, <<"U">> >>
  /\ lastOp.out = << <<"u">>, <<"w">> >>

\* C12: search_notes returns exactly the notes of the collection that pass
\* the archive filter, the query match (query empty, or a substring ignoring
\* case of the title or of the content; tag text never counts) and the tag
\* match: each of them as often as the collection holds it, and nothing else.
C12_ResultIsExactlyMatching ==
  \A query \in Queries, tags \in TagFilters, include_archived \in BOOLEAN :
    LET r == search_notes(notes, query, tags, include_archived)
        Passes(n) ==
          /\ include_archived \/ ~n.is_archived
          /\ \/ query = <<>>
             \/ Contains(Lower(n.title), Lower(query))
             \/ Contains(Lower(n.content), Lower(query))
          /\ \A a \in 1..Len(tags) :
               \E b \in 1..Len(n.tags) : Lower(n.tags[b]) = Lower(tags[a])
        Values == {notes[i] : i \in 1..Len(notes)} \cup {r[j] : j \in 1..Len(r)}
    IN \A v \in Values :
         Cardinality({j \in 1..Len(r) : r[j] = v})
           = Cardinality({i \in 1..Len(notes) : notes[i] = v /\ Passes(v)})

C12_Witness ==
  /\ lastOp.op = "search"
  /\ Len(notes) = 2
  /\ notes[1].title = <<"A">> /\ notes[1].tags = << <<"W">> >>
  /\ notes[2].content = <<"a">> /\ notes[2].tags = <<>>
  /\ ~notes[1].is_archived /\ ~notes[2].is_archived
  /\ notes[1] # notes[2]
  /\ lastOp.out = <<>>

\* C13: in a search_notes result two notes with the same is_pinned are ordered
\* by updated_at descending.
C13_RecentFirstWithinPinned ==
  \A query \in Queries, tags \in TagFilters, include_archived \in BOOLEAN :
    LET r == search_notes(notes, query, tags, include_archived)
    IN \A j, k \in 1..Len(r) :
         (j < k /\ r[j].is_pinned = r[k].is_pinned)
           => r[j].updated_at >= r[k].updated_at

C13_Witness ==
  /\ lastOp.op = "search"
  /\ Len(lastOp.out) = 2
  /\ lastOp.out[1].is_pinned = lastOp.out[2].is_pinned
  /\ lastOp.out[1].updated_at > lastOp.out[2].updated_at
  /\ notes = <<lastOp.out[2], lastOp.out[1]>>

\* C20: the search order is stable: the notes of a search_notes result that
\* share is_pinned and updated_at appear in their order in the collection.
C20_StableOrder ==
  \A query \in Queries, tags \in TagFilters, include_archived \in BOOLEAN :
    LET r == search_notes(notes, query, tags, include_archived)
        Returned == {r[j] : j \in 1..Len(r)}
    IN \A x \in Returned :
         LET SameKey(n) == n.is_pinned = x.is_pinned /\ n.updated_at = x.updated_at
             ReturnedSameKey(n) == n \in Returned /\ SameKey(n)
         IN SelectSeq(r, SameKey) = SelectSeq(notes, ReturnedSameKey)

C20_Witness ==
  /\ lastOp.op = "search"
  /\ Len(lastOp.out) = 2
  /\ lastOp.out[1].is_pinned = lastOp.out[2].is_pinned
  /\ lastOp.out[1].updated_at = lastOp.out[2].updated_at
  /\ lastOp.out[1] # lastOp.out[2]
  /\ notes = lastOp.out

\* C14: search_notes, get_note and get_all_tags are pure reads: a call of any
\* of them leaves the collection, with its order, and the backing file as they
\* were.
C14_ReadsChangeNothing ==
  [][lastOp'.op \in {"search", "get", "tags"} => (notes' = notes /\ file' = file)]_vars

C14_Witness ==
  /\ lastOp.op = "search"
  /\ Len(notes) = 2
  /\ notes[1] # notes[2]
  /\ lastOp.out = <<notes[2], notes[1]>>
  /\ file = Serialize(notes)

C17_CreateAppendsStamped ==
  [][\A title \in Titles, content \in Contents, tags \in Option(TagLists),
        t1 \in Times, t2 \in Times, t3 \in Times :
       CreateNote(title, content, tags, t1, t2, t3, "ok") =>
         LET n == notes'[Len(notes')]
         IN /\ notes' = Append(notes, n)
            /\ n.title = title /\ n.content = content
            /\ n.tags = (IF tags = <<>> THEN <<>> ELSE tags[1])
            /\ ~n.is_pinned /\ ~n.is_archived
            /\ n.created_at = n.updated_at
            /\ file' = Serialize(notes')
            /\ lastOp'.out = <<n>> /\ lastOp'.raised = "none"]_vars

\* C18: when create_note, update_note or delete_note ran save_notes and the
\* backing file does not hold the collection afterwards, the call raised: it
\* returned no note and not True.
C18_FailedWritePropagates ==
  (lastOp.op \in {"create", "update", "delete"} /\ lastOp.saved /\ file # Serialize(notes))
    => (lastOp.raised = "OSError" /\ ~lastOp.ok /\ lastOp.out = <<>>)

C18_Witness ==
  /\ lastOp.op = "create" /\ lastOp.saved
  /\ lastOp.raised = "OSError" /\ ~lastOp.ok /\ lastOp.out = <<>>
  /\ Len(notes) = 2
  /\ file = Serialize(<<notes[1]>>)

\* C19: load is all-or-nothing: when a record of the backing file lacks a
\* required field, the collection after load_notes is empty, whatever precedes
\* that record.
C19_LoadAllOrNothing ==
  (/\ constructed
   /\ lastOp.op \in {"init", "load"}
   /\ file.kind = "list"
   /\ \E i \in 1..Len(file.items) :
        file.items[i].kind = "record" /\ file.items[i].missing # {})
    => notes = <<>>

\* The step is a create_note, update_note or delete_note whose save_notes raised.
C21_FailedMutation == lastOp'.op \in {"create", "update", "delete"} /\ lastOp'.saved /\ lastOp'.raised # "none"

\* The collection after the step holds the change of the call: a note more at
\* the end, the first note with the id stamped with the clock reading, or the
\* first note with the id gone.
C21_ChangeKept ==
  CASE lastOp'.op = "create" ->
         Len(notes') = Len(notes) + 1 /\ SubSeq(notes', 1, Len(notes)) = notes
    [] lastOp'.op = "update" ->
         /\ Len(notes') = Len(notes)
         /\ \E k \in 1..Len(notes) :
              /\ notes[k].id = lastOp'.id /\ \A j \in 1..(k - 1) : notes[j].id # lastOp'.id
              /\ notes'[k].updated_at = clock'
              /\ \A i \in 1..Len(notes) : i # k => notes'[i] = notes[i]
    [] OTHER ->
         /\ Len(notes') = Len(notes) - 1
         /\ \E k \in 1..Len(notes) :
              /\ notes[k].id = lastOp'.id /\ \A j \in 1..(k - 1) : notes[j].id # lastOp'.id
              /\ notes' = [i \in 1..(Len(notes) - 1) |-> IF i < k THEN notes[i] ELSE notes[i + 1]]

\* C21 as stated: when the write fails inside create_note, update_note or
\* delete_note the collection keeps the change and the file does not hold the
\* collection, and a save that succeeds makes the file hold it.
C21_DifferUntilSaved ==
  [][/\ C21_FailedMutation => (C21_ChangeKept /\ file' # Serialize(notes'))
     /\ (lastOp'.saved /\ lastOp'.raised = "none") => file' = Serialize(notes')]_vars

\* C21 amended: when the write fails inside create_note, update_note or
\* delete_note the collection keeps the change and the file is left as it was
\* or unreadable; the file then differs from the collection whenever it held
\* the collection before the call and the call altered the collection; a save
\* that succeeds makes the file hold the collection.
C21_NoRollback ==
  [][/\ C21_FailedMutation =>
          /\ C21_ChangeKept
          /\ file' \in {file, FileOf("garbage", <<>>)}
          /\ (file = Serialize(notes) /\ notes' # notes) => file' # Serialize(notes')
     /\ (lastOp'.saved /\ lastOp'.raised = "none") => file' = Serialize(notes')]_vars

C21_Witness ==
  /\ lastOp.op = "delete" /\ lastOp.saved /\ lastOp.raised = "OSError"
  /\ Len(notes) = 1
  /\ file.kind = "list" /\ Len(file.items) = 2
  /\ file # Serialize(notes)

====
